---- MODULE Spec2Model ----
(***************************************************************************)
(* A model of imessage_bot.py: the polling loop of main(), the reader of   *)
(* the Messages database, the cache of sent-message hashes, the contact    *)
(* filter, the per-sender conversation history and the command handlers.   *)
(*                                                                         *)
(* Python strings are TLA+ strings, taken apart with Len and SubSeq.  TLA+ *)
(* strings are ASCII, so the emoji that open the bot's replies are written *)
(* as "*"; no operation of the program treats them specially.              *)
(***************************************************************************)
EXTENDS Integers, Sequences, FiniteSets, TLC

(***************************************************************************)
(* Bounds of the model.                                                    *)
(***************************************************************************)
\* messages that arrive in the store while the bot runs
MaxStore == 2
\* messages already in the store when the bot starts
MaxOld == 1
\* messages that arrive in the runs with a clock
MaxEchoStore == 3
\* length of the identifiers given to the contact filter
MaxIdLen == 3
\* messages that arrive in the runs of one long conversation
MaxChats == 11
MaxSkipStore == 2
MaxLiveAfter == 2

(***************************************************************************)
(* Program constants.                                                      *)
(***************************************************************************)
POLL_INTERVAL == 1
MAX_HISTORY == 10
SENT_MESSAGE_EXPIRY == 60
\* LIMIT 50 of the query of get_recent_messages
BATCH_LIMIT == 50

\* Python's None, for a NULL column and for a missing value.  No text or
\* identifier of the model is this string.
None == "<None>"

CLEAR_REPLY == "* Conversation cleared! Starting fresh."
HELP_TEXT == "* iMessage AI Bot Commands:\n\n/clear - Reset conversation history\n/help - Show this message"
SYSTEM_PROMPT == "You are a helpful AI assistant responding via iMessage. Keep responses concise and conversational. Use emojis sparingly but appropriately."
APOLOGY_STATUS == "Sorry, I couldn't process that. Please try again."
APOLOGY_CONNECTION == "* AI server is not running. Please start the Apple Intelligence API."
APOLOGY_TIMEOUT == "* Response took too long. Please try again."
APOLOGY_OTHER == "Something went wrong. Please try again."

(***************************************************************************)
(* str methods.                                                            *)
(***************************************************************************)
Whitespace == {" ", "\t", "\n", "\r"}
UpperCase == "ABCDEFGHIJKLMNOPQRSTUVWXYZ"
LowerCase == "abcdefghijklmnopqrstuvwxyz"

CharAt(s, i) == SubSeq(s, i, i)

UpperChars == {CharAt(UpperCase, i) : i \in 1..Len(UpperCase)}
LowerOf ==
    [c \in UpperChars |->
        CharAt(LowerCase, CHOOSE i \in 1..Len(UpperCase) : CharAt(UpperCase, i) = c)]

\* str.lower() of one character
LowerChar(c) == IF c \in UpperChars THEN LowerOf[c] ELSE c

RECURSIVE Lower(_)
\* str.lower()
Lower(s) ==
    IF Len(s) = 0 THEN s
    ELSE LowerChar(CharAt(s, 1)) \o Lower(SubSeq(s, 2, Len(s)))

RECURSIVE LStripSet(_, _)
\* str.lstrip(chars): every leading character of the set is removed
LStripSet(s, chars) ==
    IF Len(s) > 0 /\ CharAt(s, 1) \in chars
    THEN LStripSet(SubSeq(s, 2, Len(s)), chars)
    ELSE s

RECURSIVE RStripSet(_, _)
RStripSet(s, chars) ==
    IF Len(s) > 0 /\ CharAt(s, Len(s)) \in chars
    THEN RStripSet(SubSeq(s, 1, Len(s) - 1), chars)
    ELSE s

\* str.strip()
Strip(s) == RStripSet(LStripSet(s, Whitespace), Whitespace)

\* bool(x) of a str or None
Truthy(x) == x # None /\ x # ""

\* x or y
PyOr(x, y) == IF Truthy(x) THEN x ELSE y

Max(a, b) == IF a >= b THEN a ELSE b

(***************************************************************************)
(* The texts and senders of the model.                                     *)
(***************************************************************************)
\* a reply of the backend
AI_REPLY == "Hi there!"
\* CLEAR_REPLY as it comes back in another case and with white space around
ECHO_OF_CLEAR_REPLY == " * CONVERSATION cleared! Starting fresh.\n"
\* every text that is read from the store or sent
TextList ==
    << "hello", "/help", " /Clear ", "/clear now", ECHO_OF_CLEAR_REPLY, AI_REPLY,
       CLEAR_REPLY, HELP_TEXT, APOLOGY_STATUS, APOLOGY_CONNECTION,
       APOLOGY_TIMEOUT, APOLOGY_OTHER, "say /help" >>
\* every value of msg["sender"]
SenderUniverse == {None, "+1555", "amy@x.com", "chat7", "chat8"}

VARIABLES
    ALLOWED_CONTACTS,        \* the allow-list: args.contacts, else []
    hashseed,                \* the process's string-hash randomisation
    store,                   \* the rows of the message table, store[i] has ROWID i
    now,                     \* time.time()
    pc,                      \* where main() is
    last_rowid,              \* main's last_rowid
    new_messages,            \* the batch of the current cycle
    idx,                     \* position of the for loop in new_messages
    msg,                     \* the entry whose reply is awaited
    reply,                   \* the text handed to send_imessage
    processed_messages,
    sent_messages,
    sent_messages_with_time,
    conversation_history,
    old_count,               \* history: rows in the store when the bot started
    wm_at_poll,              \* history: last_rowid when the cycle's batch was read
    cycle_ids,               \* history: the ids inspected in this cycle, in order
    dispatch_log,            \* history: ids given to a command handler or the backend
    sent_log,                \* history: send_imessage calls, [rowid, to, text, at]
    cur,                     \* history: what happened to the last entry taken
    contact_in,              \* contact-filter runs: the sender given
    contact_out              \* contact-filter runs: the filter's answer

vars ==
    << ALLOWED_CONTACTS, hashseed, store, now, pc, last_rowid, new_messages, idx,
       msg, reply, processed_messages, sent_messages, sent_messages_with_time,
       conversation_history, old_count, wm_at_poll, cycle_ids, dispatch_log,
       sent_log, cur, contact_in, contact_out >>

(***************************************************************************)
(* The fingerprint cache: clean_old_sent_messages, is_our_sent_message,    *)
(* track_sent_message.                                                     *)
(***************************************************************************)
TextSet == {TextList[i] : i \in 1..Len(TextList)}

\* message.strip().lower() of every text, worked out once
NormalForms == [t \in TextSet |-> Lower(Strip(t))]

\* message.strip().lower()
Normalize(message) == NormalForms[message]

\* position of a normalised text in TextList
TextIndex(s) == CHOOSE i \in 1..Len(TextList) : Normalize(TextList[i]) = s

\* hash() of a str: a function into 64-bit integers that is fixed for the
\* life of the process and differs from process to process.  Equal strings
\* have equal hashes; distinct strings may have equal hashes too.  The model
\* holds a process in which no two of its texts collide, and one in which
\* the two command replies do.
HashSeeds == {"distinct", "colliding"}
hash(s) ==
    IF hashseed = "colliding" /\ s = Normalize(HELP_TEXT)
    THEN TextIndex(Normalize(CLEAR_REPLY))
    ELSE TextIndex(s)

msg_hash(message) == hash(Normalize(message))

FreshLate(entry) == now - entry[1] <= SENT_MESSAGE_EXPIRY
\* current_time - ts < SENT_MESSAGE_EXPIRY
Fresh(entry) == now - entry[1] < SENT_MESSAGE_EXPIRY

\* clean_old_sent_messages: the list it leaves
CleanedList == SelectSeq(sent_messages_with_time, Fresh)
\* clean_old_sent_messages: the set it leaves
CleanedSet == {CleanedList[i][2] : i \in 1..Len(CleanedList)}

\* is_our_sent_message, after its call of clean_old_sent_messages
is_our_sent_message(message) == msg_hash(message) \in CleanedSet

TrackNothing(cache, message) == cache
\* track_sent_message on the cache [set, list]
track_sent_message(cache, message) ==
    [set |-> cache.set \cup {msg_hash(message)},
     list |-> Append(cache.list, <<now, msg_hash(message)>>)]

(***************************************************************************)
(* The contact filter of main().                                           *)
(***************************************************************************)
\* sender.strip().lower() if sender else ""
sender_normalized(sender) == IF Truthy(sender) THEN Lower(Strip(sender)) ELSE ""

NoPlusOnce(s) == IF Len(s) > 0 /\ CharAt(s, 1) = "+" THEN SubSeq(s, 2, Len(s)) ELSE s
\* s.lstrip('+')
NoPlus(s) == LStripSet(s, {"+"})

ContactMatchesExactly(sender, allowed) ==
    sender_normalized(sender) = Lower(Strip(allowed))
\* the test of the loop over ALLOWED_CONTACTS
ContactMatches(sender, allowed) ==
    \/ sender_normalized(sender) = Lower(Strip(allowed))
    \/ NoPlus(sender_normalized(sender)) = NoPlus(Lower(Strip(allowed)))

RECURSIVE AnyContactMatches(_, _)
\* the loop over ALLOWED_CONTACTS, which stops at the first match
AnyContactMatches(sender, contacts) ==
    IF contacts = <<>> THEN FALSE
    ELSE IF ContactMatches(sender, Head(contacts)) THEN TRUE
    ELSE AnyContactMatches(sender, Tail(contacts))

AllowAll(sender, contacts) == TRUE
\* TRUE when main() goes on with the entry
is_allowed(sender, contacts) ==
    IF contacts = <<>> THEN TRUE ELSE AnyContactMatches(sender, contacts)

(***************************************************************************)
(* The reader: get_recent_messages and get_latest_rowid.                   *)
(***************************************************************************)
\* the rows the joins give for message rowid: one for each chat it is in
JoinedRows(rowid) ==
    LET m == store[rowid]
        row(chat) == [rowid |-> rowid, text |-> m.text,
                      sender |-> PyOr(m.handle, chat), chat_id |-> chat]
    IN  IF m.chats = <<>> THEN << row(None) >>
        ELSE [i \in 1..Len(m.chats) |-> row(m.chats[i])]

\* the WHERE clause, but for m.ROWID > ?
IsInboundText(rowid) ==
    /\ store[rowid].text # None
    /\ store[rowid].text # ""
    /\ store[rowid].is_from_me = 0

RECURSIVE RowsFrom(_)
\* the selected rows with ROWID >= rowid, ascending
RowsFrom(rowid) ==
    IF rowid > Len(store) THEN <<>>
    ELSE (IF IsInboundText(rowid) THEN JoinedRows(rowid) ELSE <<>>) \o RowsFrom(rowid + 1)

RECURSIVE Reverse(_)
Reverse(s) == IF s = <<>> THEN <<>> ELSE Append(Reverse(Tail(s)), Head(s))

QueryDescending(since_rowid) == Reverse(RowsFrom(since_rowid + 1))
\* the query: WHERE m.ROWID > ? ... ORDER BY m.ROWID ASC LIMIT 50
Query(since_rowid) ==
    LET rows == RowsFrom(since_rowid + 1)
    IN  SubSeq(rows, 1, IF Len(rows) < BATCH_LIMIT THEN Len(rows) ELSE BATCH_LIMIT)

ReadFromStart(since_rowid, ok) == IF ok THEN Query(since_rowid) ELSE Query(0)
\* get_recent_messages; ok is FALSE when the database raises
get_recent_messages(since_rowid, ok) == IF ok THEN Query(since_rowid) ELSE <<>>

\* get_latest_rowid: MAX(ROWID) or 0, and 0 when the database raises
get_latest_rowid(ok) == IF ok THEN Len(store) ELSE 0

(***************************************************************************)
(* The conversation history: get_ai_response.                              *)
(***************************************************************************)
Turn(role, content) == [role |-> role, content |-> content]

KeepOldest(history) ==
    IF Len(history) > MAX_HISTORY * 2 THEN SubSeq(history, 1, MAX_HISTORY * 2) ELSE history
\* conversation_history[sender][-MAX_HISTORY * 2:] when it is longer
KeepRecent(history) ==
    IF Len(history) > MAX_HISTORY * 2
    THEN SubSeq(history, Len(history) - MAX_HISTORY * 2 + 1, Len(history))
    ELSE history

\* the history after the user turn is added
AppendUser(history, message) == KeepRecent(Append(history, Turn("user", message)))

\* the history after the reply of the backend is added
AppendAssistant(history, ai_response) == Append(history, Turn("assistant", ai_response))

\* the messages array of the request
RequestMessages(history) == << Turn("system", SYSTEM_PROMPT) >> \o history

\* what requests.post and the reading of its response can come to
BackendOutcomes == {"ok", "nonstring", "status", "connection", "timeout", "malformed"}

\* what get_ai_response returns: the content of the response ("nonstring":
\* a 200 response whose content is null), else the text of the failure
AiResponse(outcome) ==
    CASE outcome = "ok" -> AI_REPLY
      [] outcome = "nonstring" -> None
      [] outcome = "status" -> APOLOGY_STATUS
      [] outcome = "connection" -> APOLOGY_CONNECTION
      [] outcome = "timeout" -> APOLOGY_TIMEOUT
      [] outcome = "malformed" -> APOLOGY_OTHER

\* status 200 and a content read from the response
ResponseRead(outcome) == outcome \in {"ok", "nonstring"}

(***************************************************************************)
(* main(): the handling of one entry of the batch.                         *)
(***************************************************************************)
NeverProcessed(rowid) == FALSE
\* rowid in processed_messages
AlreadyProcessed(rowid) == rowid \in processed_messages

StartsWithClear(text) ==
    Len(Normalize(text)) >= 6 /\ SubSeq(Normalize(text), 1, 6) = "/clear"
\* text.strip().lower() == "/clear"
IsClear(text) == Normalize(text) = "/clear"
\* text.strip().lower() == "/help"
IsHelp(text) == Normalize(text) = "/help"

EchoCheckedFirst(m) ==
    IF is_our_sent_message(m.text) \/ AlreadyProcessed(m.rowid) THEN "dup"
    ELSE IF ~is_allowed(m.sender, ALLOWED_CONTACTS) THEN "filtered"
    ELSE IF IsClear(m.text) THEN "clear"
    ELSE IF IsHelp(m.text) THEN "help"
    ELSE "chat"
\* the way an entry goes through the body of the for loop
EntryPath(m) ==
    IF AlreadyProcessed(m.rowid) THEN "dup"
    ELSE IF is_our_sent_message(m.text) THEN "echo"
    ELSE IF ~is_allowed(m.sender, ALLOWED_CONTACTS) THEN "filtered"
    ELSE IF IsClear(m.text) THEN "clear"
    ELSE IF IsHelp(m.text) THEN "help"
    ELSE "chat"

NoEntry ==
    [rowid |-> 0, sender |-> None, text |-> "", path |-> "none",
     outcome |-> "none", request |-> <<>>, send |-> "none",
     at |-> 0, last_text |-> -1, last_hash |-> -1]

\* history: the latest time of a set of times, -1 if there is none
Latest(times) == IF times = {} THEN -1 ELSE CHOOSE t \in times : \A u \in times : u <= t

\* history: when send_imessage last had a text with the normal form of text
LastSentText(text) ==
    Latest({sent_log[i].at : i \in {j \in 1..Len(sent_log) :
                                        Normalize(sent_log[j].text) = Normalize(text)}})

\* history: when send_imessage last had a text with the hash of text
LastSentHash(text) ==
    Latest({sent_log[i].at : i \in {j \in 1..Len(sent_log) :
                                        msg_hash(sent_log[j].text) = msg_hash(text)}})

\* The body of the for loop up to its first blocking call: the request to
\* the backend on the chat path, osascript for a command, none for an entry
\* that is skipped.
HandleEntry ==
    /\ pc = "for"
    /\ idx <= Len(new_messages)
    /\ LET m == new_messages[idx]
           path == EntryPath(m)
           inspected == path # "dup"
           command == path \in {"clear", "help"}
           canned == IF path = "clear" THEN CLEAR_REPLY ELSE HELP_TEXT
           cleaned == [set |-> CleanedSet, list |-> CleanedList]
           cache == IF command THEN track_sent_message(cleaned, canned) ELSE cleaned
           history ==
               CASE path = "clear" -> <<>>
                 [] path = "chat" -> AppendUser(conversation_history[m.sender], m.text)
                 [] OTHER -> conversation_history[m.sender]
       IN  /\ processed_messages' =
                 IF inspected THEN processed_messages \cup {m.rowid} ELSE processed_messages
           /\ last_rowid' = IF inspected THEN Max(last_rowid, m.rowid) ELSE last_rowid
           /\ sent_messages' = IF inspected THEN cache.set ELSE sent_messages
           /\ sent_messages_with_time' =
                 IF inspected THEN cache.list ELSE sent_messages_with_time
           /\ conversation_history' = [conversation_history EXCEPT ![m.sender] = history]
           /\ pc' = IF command THEN "send" ELSE IF path = "chat" THEN "backend" ELSE "for"
           /\ idx' = IF command \/ path = "chat" THEN idx ELSE idx + 1
           /\ msg' = IF inspected THEN m ELSE msg
           /\ reply' = IF command THEN canned ELSE reply
           /\ cycle_ids' = IF inspected THEN Append(cycle_ids, m.rowid) ELSE cycle_ids
           /\ dispatch_log' =
                 IF command \/ path = "chat" THEN Append(dispatch_log, m.rowid)
                 ELSE dispatch_log
           /\ sent_log' =
                 IF command
                 THEN Append(sent_log, [rowid |-> m.rowid, to |-> m.sender,
                                        text |-> canned, at |-> now])
                 ELSE sent_log
           /\ cur' = [rowid |-> m.rowid, sender |-> m.sender, text |-> m.text,
                      path |-> path, outcome |-> "none",
                      request |-> IF path = "chat" THEN RequestMessages(history) ELSE <<>>,
                      send |-> "none", at |-> now,
                      last_text |-> LastSentText(m.text),
                      last_hash |-> LastSentHash(m.text)]
    /\ UNCHANGED << ALLOWED_CONTACTS, hashseed, store, now, new_messages, old_count,
                    wm_at_poll, contact_in, contact_out >>

\* requests.post has returned or raised: the rest of get_ai_response, the
\* printing of the response and send_imessage up to osascript.  A response
\* that is no str raises TypeError at ai_response[:100], which nothing
\* catches.
BackendReturn(outcomes) ==
    /\ pc = "backend"
    /\ \E outcome \in outcomes :
        LET ai_response == AiResponse(outcome)
            history ==
                IF ResponseRead(outcome)
                THEN AppendAssistant(conversation_history[msg.sender], ai_response)
                ELSE conversation_history[msg.sender]
            cache == track_sent_message(
                         [set |-> sent_messages, list |-> sent_messages_with_time],
                         ai_response)
        IN  /\ conversation_history' = [conversation_history EXCEPT ![msg.sender] = history]
            /\ cur' = [cur EXCEPT !.outcome = outcome]
            /\ IF ai_response = None
               THEN /\ pc' = "crashed"
                    /\ UNCHANGED << reply, sent_messages, sent_messages_with_time, sent_log >>
               ELSE /\ pc' = "send"
                    /\ reply' = ai_response
                    /\ sent_messages' = cache.set
                    /\ sent_messages_with_time' = cache.list
                    /\ sent_log' = Append(sent_log, [rowid |-> msg.rowid, to |-> msg.sender,
                                                     text |-> ai_response, at |-> now])
    /\ UNCHANGED << ALLOWED_CONTACTS, hashseed, store, now, last_rowid, new_messages, idx,
                    msg, processed_messages, old_count, wm_at_poll, cycle_ids,
                    dispatch_log, contact_in, contact_out >>

\* what subprocess.run can come to: it returns, TimeoutExpired, another exception
SendOutcomes == {"returned", "timeout", "error"}

SendRetry ==
    /\ pc = "send"
    /\ \E outcome \in SendOutcomes :
        /\ cur' = [cur EXCEPT !.send = outcome]
        /\ IF outcome = "returned"
           THEN pc' = "for" /\ idx' = idx + 1 /\ sent_log' = sent_log
           ELSE pc' = "send" /\ idx' = idx /\
                sent_log' = Append(sent_log, [rowid |-> msg.rowid, to |-> msg.sender,
                                              text |-> reply, at |-> now])
    /\ UNCHANGED << ALLOWED_CONTACTS, hashseed, store, now, last_rowid, new_messages, msg,
                    reply, processed_messages, sent_messages, sent_messages_with_time,
                    conversation_history, old_count, wm_at_poll, cycle_ids, dispatch_log,
                    contact_in, contact_out >>

\* osascript is over: send_imessage returns True or False, main prints and
\* takes the next entry
SendReturn ==
    /\ pc = "send"
    /\ \E outcome \in SendOutcomes : cur' = [cur EXCEPT !.send = outcome]
    /\ pc' = "for"
    /\ idx' = idx + 1
    /\ UNCHANGED << ALLOWED_CONTACTS, hashseed, store, now, last_rowid, new_messages, msg,
                    reply, processed_messages, sent_messages, sent_messages_with_time,
                    conversation_history, old_count, wm_at_poll, cycle_ids, dispatch_log,
                    sent_log, contact_in, contact_out >>

(***************************************************************************)
(* main(): the start and the cycle.                                        *)
(***************************************************************************)
\* last_rowid = get_latest_rowid()
Startup ==
    /\ pc = "start"
    /\ \E ok \in BOOLEAN : last_rowid' = get_latest_rowid(ok)
    /\ pc' = "poll"
    /\ UNCHANGED << ALLOWED_CONTACTS, hashseed, store, now, new_messages, idx, msg, reply,
                    processed_messages, sent_messages, sent_messages_with_time,
                    conversation_history, old_count, wm_at_poll, cycle_ids, dispatch_log,
                    sent_log, cur, contact_in, contact_out >>

\* new_messages = get_recent_messages(last_rowid)
Poll ==
    /\ pc = "poll"
    /\ \E ok \in BOOLEAN : new_messages' = get_recent_messages(last_rowid, ok)
    /\ idx' = 1
    /\ pc' = "for"
    /\ wm_at_poll' = last_rowid
    /\ cycle_ids' = <<>>
    /\ UNCHANGED << ALLOWED_CONTACTS, hashseed, store, now, last_rowid, msg, reply,
                    processed_messages, sent_messages, sent_messages_with_time,
                    conversation_history, old_count, dispatch_log, sent_log, cur,
                    contact_in, contact_out >>

\* the for loop is over
CycleDone == pc = "for" /\ idx > Len(new_messages)

\* time.sleep(POLL_INTERVAL), then the next turn of while True
Sleep ==
    /\ CycleDone
    /\ pc' = "poll"
    /\ UNCHANGED << ALLOWED_CONTACTS, hashseed, store, now, last_rowid, new_messages, idx,
                    msg, reply, processed_messages, sent_messages,
                    sent_messages_with_time, conversation_history, old_count, wm_at_poll,
                    cycle_ids, dispatch_log, sent_log, cur, contact_in, contact_out >>

\* KeyboardInterrupt, raised wherever the loop is
Interrupt ==
    /\ pc \in {"poll", "for", "backend", "send"}
    /\ pc' = "done"
    /\ UNCHANGED << ALLOWED_CONTACTS, hashseed, store, now, last_rowid, new_messages, idx,
                    msg, reply, processed_messages, sent_messages,
                    sent_messages_with_time, conversation_history, old_count, wm_at_poll,
                    cycle_ids, dispatch_log, sent_log, cur, contact_in, contact_out >>

Running == pc \notin {"done", "crashed"}

(***************************************************************************)
(* The surroundings: the Messages database and the clock.                  *)
(***************************************************************************)
Message(text, is_from_me, handle, chats) ==
    [text |-> text, is_from_me |-> is_from_me, handle |-> handle, chats |-> chats]

\* A message is written to the store, at most limit of them.  The store
\* is read by get_latest_rowid and get_recent_messages alone, so a message is
\* let in right before one of them: whenever it is written, that read is the
\* first to see it.
Arrive(messages, limit) ==
    /\ pc \in {"start", "poll"}
    /\ Len(store) < old_count + limit
    /\ \E m \in messages : store' = Append(store, m)
    /\ UNCHANGED << ALLOWED_CONTACTS, hashseed, now, pc, last_rowid, new_messages, idx,
                    msg, reply, processed_messages, sent_messages,
                    sent_messages_with_time, conversation_history, old_count, wm_at_poll,
                    cycle_ids, dispatch_log, sent_log, cur, contact_in, contact_out >>

\* The instants the clock is read at: the start, and the second before, the
\* second of and the second after SENT_MESSAGE_EXPIRY from the start.
Instants ==
    {0, SENT_MESSAGE_EXPIRY - 1, SENT_MESSAGE_EXPIRY, SENT_MESSAGE_EXPIRY + 1}

\* Time passes.  The clock is read where an entry is taken from the batch
\* (clean_old_sent_messages, track_sent_message) and where the backend has
\* answered (track_sent_message), so time is let pass right before these.
Tick ==
    /\ \/ pc = "for" /\ idx <= Len(new_messages)
       \/ pc = "backend"
    /\ \E t \in Instants :
        /\ t > now
        /\ now' = t
    /\ UNCHANGED << ALLOWED_CONTACTS, hashseed, store, pc, last_rowid, new_messages, idx,
                    msg, reply, processed_messages, sent_messages,
                    sent_messages_with_time, conversation_history, old_count, wm_at_poll,
                    cycle_ids, dispatch_log, sent_log, cur, contact_in, contact_out >>

RECURSIVE SeqsUpTo(_, _)
\* the sequences over S of length at most n
SeqsUpTo(S, n) ==
    IF n = 0 THEN {<<>>}
    ELSE LET shorter == SeqsUpTo(S, n - 1)
         IN  shorter \cup {Append(s, x) : s \in shorter, x \in S}

\* the state of the module when main() is entered
InitProgram ==
    /\ now = 0
    /\ pc = "start"
    /\ last_rowid = 0
    /\ new_messages = <<>>
    /\ idx = 1
    /\ msg = NoEntry
    /\ reply = None
    /\ processed_messages = {}
    /\ sent_messages = {}
    /\ sent_messages_with_time = <<>>
    /\ conversation_history = [s \in SenderUniverse |-> <<>>]
    /\ wm_at_poll = 0
    /\ cycle_ids = <<>>
    /\ dispatch_log = <<>>
    /\ sent_log = <<>>
    /\ cur = NoEntry

(***************************************************************************)
(* The loop over a store of chat messages, help requests and rows that     *)
(* the query leaves out.                                                   *)
(***************************************************************************)
Arrivals ==
    { Message("hello", 0, "+1555", << "+1555" >>),
      Message("/help", 0, "amy@x.com", << "chat7", "chat8" >>),
      Message("hello", 1, "+1555", << "+1555" >>),
      Message("", 0, "+1555", << "+1555" >>) }

OldMessages == { Message("hello", 0, "+1555", << "+1555" >>) }

Init ==
    /\ InitProgram
    /\ contact_in = None
    /\ contact_out = "none"
    /\ ALLOWED_CONTACTS \in { <<>>, << "1555", "AMY@x.com" >> }
    /\ hashseed = "distinct"
    /\ store \in SeqsUpTo(OldMessages, MaxOld)
    /\ old_count = Len(store)

Next ==
    \/ Startup
    \/ Poll
    \/ HandleEntry
    \/ BackendReturn({"ok", "timeout", "nonstring"})
    \/ SendReturn
    \/ Sleep
    \/ Interrupt
    \/ Arrive(Arrivals, MaxStore)

Spec == Init /\ [][Next]_vars

(***************************************************************************)
(* C1.  No id is given to the backend or to the /clear or /help handler    *)
(* more than once, whatever the batches hold: dispatch_log, the ids given  *)
(* to one of them in order, never holds an id twice.                       *)
(***************************************************************************)
C1_DispatchedOnce ==
    \A i, j \in 1..Len(dispatch_log) :
        i # j => dispatch_log[i] # dispatch_log[j]

\* a batch held an id a second time, after that id had been dispatched
C1_Witness ==
    /\ cur.path = "dup"
    /\ \E i \in 1..Len(dispatch_log) : dispatch_log[i] = cur.rowid

(***************************************************************************)
(* C2.  In every cycle the entries are inspected in strictly ascending id  *)
(* order; when the for loop is over, last_rowid is the largest id of the   *)
(* batch, or what it was when the batch was read if the batch is empty;    *)
(* and no step lowers last_rowid.                                          *)
(***************************************************************************)
BatchIds == {new_messages[i].rowid : i \in 1..Len(new_messages)}

C2_CycleOrder ==
    /\ \A i, j \in 1..Len(cycle_ids) : i < j => cycle_ids[i] < cycle_ids[j]
    /\ CycleDone /\ new_messages # <<>> =>
          /\ last_rowid \in BatchIds
          /\ \A id \in BatchIds : id <= last_rowid
    /\ CycleDone /\ new_messages = <<>> => last_rowid = wm_at_poll

C2_Watermark == []C2_CycleOrder /\ [][last_rowid' >= last_rowid]_vars

\* a cycle is over in which two entries were inspected and one was a repeat
C2_Witness ==
    /\ CycleDone
    /\ Len(cycle_ids) >= 2
    /\ Len(new_messages) > Len(cycle_ids)

(***************************************************************************)
(* C5.  No entry that was in the store before the bot started is ever      *)
(* inspected, whether get_latest_rowid answers or fails: every id in       *)
(* processed_messages is above the ids the store held at the start.        *)
(***************************************************************************)
C5_NoOldEntry == \A id \in processed_messages : id > old_count

(***************************************************************************)
(* The loop over chat messages and /clear requests, with every outcome of  *)
(* the request to the backend.                                             *)
(***************************************************************************)
ReplyArrivals ==
    { Message("hello", 0, "+1555", << "+1555" >>),
      Message(" /Clear ", 0, "+1555", << "+1555" >>) }

InitReplies ==
    /\ InitProgram
    /\ contact_in = None
    /\ contact_out = "none"
    /\ ALLOWED_CONTACTS = << "1555" >>
    /\ hashseed = "distinct"
    /\ store = <<>>
    /\ old_count = 0

NextReplies ==
    \/ Startup
    \/ Poll
    \/ HandleEntry
    \/ BackendReturn(BackendOutcomes)
    \/ SendReturn
    \/ Sleep
    \/ Interrupt
    \/ Arrive(ReplyArrivals, MaxStore)

SpecReplies == InitReplies /\ [][NextReplies]_vars

\* history: the send_imessage calls made for the entry cur
SendsOfCur == SelectSeq(sent_log, LAMBDA e : e.rowid = cur.rowid)

(***************************************************************************)
(* C6.  Once an allowed entry that is no echo and whose text is "/clear"   *)
(* after strip and lower has been handled, no request was made to the      *)
(* backend for it, the history of its sender is empty, send_imessage was   *)
(* called for it exactly once, with the sender and the confirmation, and   *)
(* the hash of the confirmation is in sent_messages.                       *)
(***************************************************************************)
C6_Clear ==
    cur.path \in {"clear", "help", "chat"} /\ Normalize(cur.text) = "/clear" =>
        /\ cur.path = "clear"
        /\ pc # "backend"
        /\ cur.request = <<>>
        /\ cur.outcome = "none"
        /\ conversation_history[cur.sender] = <<>>
        /\ Len(SendsOfCur) = 1
        /\ SendsOfCur[1].to = cur.sender
        /\ SendsOfCur[1].text = CLEAR_REPLY
        /\ msg_hash(CLEAR_REPLY) \in sent_messages

\* " /Clear " was handled for a sender who had been given a reply of the
\* backend, and osascript is over
C6_Witness ==
    /\ cur.path = "clear"
    /\ cur.text = " /Clear "
    /\ cur.send # "none"
    /\ \E i \in 1..Len(sent_log) :
          sent_log[i].to = cur.sender /\ sent_log[i].text = AI_REPLY

(***************************************************************************)
(* C7.  When the request to the backend fails (connection refused,         *)
(* timeout, a status that is not 200, a response that is not the expected  *)
(* one), the loop goes on: send_imessage is called for the entry with one  *)
(* of the fixed apologies and the hash of the apology is in sent_messages. *)
(***************************************************************************)
Apologies == {APOLOGY_STATUS, APOLOGY_CONNECTION, APOLOGY_TIMEOUT, APOLOGY_OTHER}

C7_FailureAnswered ==
    cur.outcome \in BackendOutcomes \ {"ok"} =>
        /\ pc # "crashed"
        /\ Len(SendsOfCur) = 1
        /\ SendsOfCur[1].to = cur.sender
        /\ SendsOfCur[1].text \in Apologies
        /\ msg_hash(SendsOfCur[1].text) \in sent_messages

(***************************************************************************)
(* The loop with a clock: commands, and the confirmation of /clear coming  *)
(* back as an inbound message.                                             *)
(***************************************************************************)
EchoArrivals ==
    { Message(" /Clear ", 0, "+1555", << "+1555" >>),
      Message("/help", 0, "+1555", << "+1555" >>),
      Message(ECHO_OF_CLEAR_REPLY, 0, "+1555", << "+1555" >>) }

InitEcho ==
    /\ InitProgram
    /\ contact_in = None
    /\ contact_out = "none"
    /\ ALLOWED_CONTACTS = <<>>
    /\ hashseed \in HashSeeds
    /\ store = <<>>
    /\ old_count = 0

NextEcho ==
    \/ Startup
    \/ Poll
    \/ HandleEntry
    \/ BackendReturn({"ok"})
    \/ SendReturn
    \/ Sleep
    \/ Arrive(EchoArrivals, MaxEchoStore)
    \/ Tick

SpecEcho == InitEcho /\ [][NextEcho]_vars

\* the entry cur was taken from the batch and was no repeat of an id
Inspected == cur.path \in {"echo", "filtered", "clear", "help", "chat"}

(***************************************************************************)
(* C3 as stated.  An inspected entry whose normal form was given to        *)
(* send_imessage before, last at time T, and that is checked at T + D is   *)
(* skipped as our own message if and only if D < SENT_MESSAGE_EXPIRY.      *)
(***************************************************************************)
C3_SameTextWithinExpiry ==
    Inspected /\ cur.last_text >= 0 =>
        (cur.path = "echo" <=> cur.at - cur.last_text < SENT_MESSAGE_EXPIRY)

(***************************************************************************)
(* C3 as amended.  An inspected entry is skipped as our own message if     *)
(* and only if a text with the same hash of its normal form was given to   *)
(* send_imessage less than SENT_MESSAGE_EXPIRY before the check; a text    *)
(* with the same normal form has the same hash.                            *)
(***************************************************************************)
C3_SameHashWithinExpiry ==
    Inspected =>
        /\ cur.path = "echo" <=>
              cur.last_hash >= 0 /\ cur.at - cur.last_hash < SENT_MESSAGE_EXPIRY
        /\ cur.last_text <= cur.last_hash

\* the confirmation came back exactly SENT_MESSAGE_EXPIRY after it was sent
\* and was taken as a chat message
C3_Witness ==
    /\ cur.path = "chat"
    /\ cur.text = ECHO_OF_CLEAR_REPLY
    /\ cur.last_text >= 0
    /\ cur.at - cur.last_hash = SENT_MESSAGE_EXPIRY

(***************************************************************************)
(* The loop over one long conversation with one sender.                    *)
(***************************************************************************)
ChatArrivals == { Message("hello", 0, "+1555", << "+1555" >>) }

InitChats ==
    /\ InitProgram
    /\ contact_in = None
    /\ contact_out = "none"
    /\ ALLOWED_CONTACTS = << "+1555" >>
    /\ hashseed = "distinct"
    /\ store = <<>>
    /\ old_count = 0

NextChats ==
    \/ Startup
    \/ Poll
    \/ HandleEntry
    \/ BackendReturn({"ok"})
    \/ SendReturn
    \/ Sleep
    \/ Arrive(ChatArrivals, MaxChats)

SpecChats == InitChats /\ [][NextChats]_vars

(***************************************************************************)
(* C4.  The history of a sender never holds more than 2 * MAX_HISTORY      *)
(* turns, after the user turn is added and after the assistant turn is     *)
(* added.                                                                  *)
(***************************************************************************)
C4_HistoryCap ==
    \A s \in SenderUniverse : Len(conversation_history[s]) <= 2 * MAX_HISTORY

(***************************************************************************)
(* The contact filter on its own: every sender and allow-list over a small *)
(* alphabet.                                                               *)
(***************************************************************************)
IdChars == {" ", "+", "a", "A"}

RECURSIVE StringsUpTo(_)
\* the strings over IdChars of length at most n
StringsUpTo(n) ==
    IF n = 0 THEN {""}
    ELSE LET shorter == StringsUpTo(n - 1)
         IN  shorter \cup {s \o c : s \in shorter, c \in IdChars}

Ids == StringsUpTo(MaxIdLen)

\* no allow-list, one contact, and a contact after "+a"
AllowLists == {<<>>} \cup {<< x >> : x \in Ids} \cup {<< "+a", x >> : x \in Ids}

InitContacts ==
    /\ InitProgram
    /\ hashseed = "distinct"
    /\ store = <<>>
    /\ old_count = 0
    /\ ALLOWED_CONTACTS \in AllowLists
    /\ contact_in \in Ids \cup {None}
    /\ contact_out = "none"

\* the filter of main() is applied to the sender
CheckContact ==
    /\ contact_out = "none"
    /\ contact_out' = IF is_allowed(contact_in, ALLOWED_CONTACTS) THEN "allowed" ELSE "ignored"
    /\ UNCHANGED << ALLOWED_CONTACTS, hashseed, store, now, pc, last_rowid, new_messages,
                    idx, msg, reply, processed_messages, sent_messages,
                    sent_messages_with_time, conversation_history, old_count, wm_at_poll,
                    cycle_ids, dispatch_log, sent_log, cur, contact_in >>

SpecContacts == InitContacts /\ [][CheckContact]_vars

\* the identifier after strip and lower, empty when there is none
Folded(id) == IF id = None THEN "" ELSE Lower(Strip(id))

\* the number of "+" that s starts with
LeadingPluses(s) ==
    CHOOSE k \in 0..Len(s) :
        /\ \A i \in 1..k : CharAt(s, i) = "+"
        /\ k < Len(s) => CharAt(s, k + 1) # "+"

WithoutOnePlus(s) == SubSeq(s, (IF LeadingPluses(s) > 0 THEN 1 ELSE 0) + 1, Len(s))
WithoutPluses(s) == SubSeq(s, LeadingPluses(s) + 1, Len(s))

(***************************************************************************)
(* C8 as stated.  The filter allows a sender exactly when the allow-list   *)
(* is empty or the sender, after strip, lower and the removal of one       *)
(* leading "+", equals an entry of the allow-list treated the same way.    *)
(***************************************************************************)
C8_OnePlusReference ==
    contact_out # "none" =>
        (contact_out = "allowed" <=>
            \/ ALLOWED_CONTACTS = <<>>
            \/ \E i \in 1..Len(ALLOWED_CONTACTS) :
                  WithoutOnePlus(Folded(contact_in)) =
                      WithoutOnePlus(Folded(ALLOWED_CONTACTS[i])))

(***************************************************************************)
(* C8 as amended.  The filter allows a sender exactly when the allow-list  *)
(* is empty or the sender (empty when absent), after strip, lower and the  *)
(* removal of every leading "+", equals an entry of the allow-list         *)
(* treated the same way.                                                   *)
(***************************************************************************)
C8_AllPlusesReference ==
    contact_out # "none" =>
        (contact_out = "allowed" <=>
            \/ ALLOWED_CONTACTS = <<>>
            \/ \E i \in 1..Len(ALLOWED_CONTACTS) :
                  WithoutPluses(Folded(contact_in)) =
                      WithoutPluses(Folded(ALLOWED_CONTACTS[i])))

\* a sender with two leading "+" is allowed by a contact with none, found
\* as the second contact of the list and in another case
C8_Witness ==
    /\ contact_out = "allowed"
    /\ contact_in = "++a"
    /\ ALLOWED_CONTACTS = << "+a", "A" >>

(***************************************************************************)
(* C9.  A sender that is absent or empty is never allowed when the         *)
(* allow-list is not empty, whatever its entries are.                      *)
(***************************************************************************)
C9_EmptySenderIgnored ==
    contact_out # "none" /\ ~Truthy(contact_in) /\ ALLOWED_CONTACTS # <<>> =>
        contact_out = "ignored"

(***************************************************************************)
(* C10.  For every identifier x that is not empty and holds no white       *)
(* space: the sender x is allowed by [x], the sender "+" x is allowed by   *)
(* [x], and the sender x is allowed by ["+" x].                            *)
(***************************************************************************)
WellFormed(x) ==
    /\ x # None
    /\ Len(x) > 0
    /\ \A i \in 1..Len(x) : CharAt(x, i) \notin Whitespace

C10_Reflexive ==
    contact_out # "none" /\ Len(ALLOWED_CONTACTS) = 1 =>
        LET allowed == ALLOWED_CONTACTS[1]
        IN  /\ WellFormed(allowed) /\ contact_in \in {allowed, "+" \o allowed}
                => contact_out = "allowed"
            /\ WellFormed(contact_in) /\ allowed = "+" \o contact_in
                => contact_out = "allowed"

\* the sender "+" x was checked against [x], for an x that itself starts
\* with "+" and has an upper-case letter
C10_Witness ==
    /\ contact_out = "allowed"
    /\ ALLOWED_CONTACTS = << "+A" >>
    /\ contact_in = "++A"

(***************************************************************************)
(* The loop over two allowed senders and one that is not allowed, with     *)
(* commands, texts that hold a command, a message that is in two chats and *)
(* the confirmation of /clear coming back.                                 *)
(***************************************************************************)
SkipArrivals ==
    { Message("hello", 0, "+1555", << "+1555" >>),
      Message(" /Clear ", 0, "+1555", << "+1555" >>),
      Message("/help", 0, "+1555", << "+1555", "chat8" >>),
      Message("/clear now", 0, None, << "chat7" >>),
      Message(ECHO_OF_CLEAR_REPLY, 0, None, << "chat7" >>),
      Message("say /help", 0, "amy@x.com", << "chat8" >>) }

InitSkips ==
    /\ InitProgram
    /\ contact_in = None
    /\ contact_out = "none"
    /\ ALLOWED_CONTACTS = << "1555", "Chat7" >>
    /\ hashseed = "distinct"
    /\ store = <<>>
    /\ old_count = 0

NextSkips ==
    \/ Startup
    \/ Poll
    \/ HandleEntry
    \/ BackendReturn({"ok", "status"})
    \/ SendReturn
    \/ Sleep
    \/ Arrive(SkipArrivals, MaxSkipStore)

SpecSkips == InitSkips /\ [][NextSkips]_vars

\* the entry cur went on to the commands and the backend
Handled == cur.path \in {"clear", "help", "chat"}

\* s with the white space at its two ends and the case of its letters taken
\* away, one character at a time
RECURSIVE DropLeadingSpace(_)
DropLeadingSpace(s) ==
    IF Len(s) > 0 /\ CharAt(s, 1) \in Whitespace
    THEN DropLeadingSpace(SubSeq(s, 2, Len(s)))
    ELSE s

RECURSIVE DropTrailingSpace(_)
DropTrailingSpace(s) ==
    IF Len(s) > 0 /\ CharAt(s, Len(s)) \in Whitespace
    THEN DropTrailingSpace(SubSeq(s, 1, Len(s) - 1))
    ELSE s

Trimmed(s) == DropTrailingSpace(DropLeadingSpace(s))

\* every text trimmed and in lower case, worked out once
TrimmedForms == [t \in TextSet |-> Folded(Trimmed(t))]

(***************************************************************************)
(* C11.  An entry that went on to the commands is handled as /clear        *)
(* exactly when its text, trimmed and in lower case, is "/clear", as /help *)
(* exactly when it is "/help", and as a chat message otherwise; a request  *)
(* to the backend is made for the chat messages alone.                     *)
(***************************************************************************)
C11_ExactCommands ==
    Handled =>
        LET token == TrimmedForms[cur.text]
        IN  /\ cur.path = "clear" <=> token = "/clear"
            /\ cur.path = "help" <=> token = "/help"
            /\ cur.path = "chat" <=> token \notin {"/clear", "/help"}
            /\ cur.path # "chat" =>
                  /\ pc # "backend"
                  /\ cur.request = <<>>
                  /\ cur.outcome = "none"
                  /\ SendsOfCur # <<>>
                  /\ SendsOfCur[1].text \in {CLEAR_REPLY, HELP_TEXT}
            /\ cur.path = "chat" => cur.request # <<>>

\* "/clear now" and "say /help" were both taken as chat messages
C11_Witness ==
    /\ cur.path = "chat"
    /\ cur.text = "/clear now"
    /\ cur.outcome = "ok"
    /\ \E i \in 1..Len(conversation_history["chat7"]) :
          conversation_history["chat7"][i] = Turn("user", "/clear now")

\* what a cycle with an empty batch must leave as it is
Kept ==
    << last_rowid, processed_messages, conversation_history, sent_messages,
       sent_messages_with_time >>

(***************************************************************************)
(* C12.  The read of a cycle gives the rows above last_rowid or, when the  *)
(* database raises, no row at all, and changes nothing else.  A cycle with *)
(* no row goes to the next read and leaves last_rowid, processed_messages, *)
(* the histories and the cache of sent messages as they were, so the next  *)
(* read asks for the rows above the same last_rowid.                       *)
(***************************************************************************)
C12_ReadFailure ==
    [][ /\ pc = "poll" /\ pc' # "poll" =>
             /\ pc' = "for"
             /\ idx' = 1
             /\ new_messages' \in {<<>>, Query(last_rowid)}
             /\ wm_at_poll' = last_rowid
             /\ UNCHANGED Kept
        /\ pc = "for" /\ new_messages = <<>> =>
             /\ pc' = "poll"
             /\ UNCHANGED Kept ]_vars

\* a read has failed while an entry was waiting, after another entry had
\* been answered
C12_Witness ==
    /\ pc = "for"
    /\ new_messages = <<>>
    /\ Query(last_rowid) # <<>>
    /\ last_rowid > 0
    /\ sent_log # <<>>

\* history: no entry has two calls of send_imessage
OneSendEach ==
    \A i, j \in 1..Len(sent_log) : sent_log[i].rowid = sent_log[j].rowid => i = j

(***************************************************************************)
(* C13.  send_imessage is called at most once for an entry, and when       *)
(* osascript is over, whether it returned, timed out or raised, the for    *)
(* loop is at the next entry of the same batch, which is as it was, with   *)
(* no further call made.                                                   *)
(***************************************************************************)
C13_NoRetry ==
    /\ []OneSendEach
    /\ [][ pc = "send" =>
             /\ pc' = "for"
             /\ idx' = idx + 1
             /\ cur'.send \in SendOutcomes
             /\ UNCHANGED << new_messages, sent_log, cycle_ids >> ]_vars

\* osascript timed out for the first entry of a batch and the second entry
\* of that batch, one that is no repeat, is the next to be taken
C13_Witness ==
    /\ cur.send = "timeout"
    /\ pc = "for"
    /\ idx = 2
    /\ idx <= Len(new_messages)
    /\ new_messages[idx].rowid \notin processed_messages

RECURSIVE LastTurns(_, _)
\* the turns that are left when the oldest is dropped until there are n at most
LastTurns(turns, n) == IF Len(turns) > n THEN LastTurns(Tail(turns), n) ELSE turns

(***************************************************************************)
(* C14.  The messages of a request to the backend are the system turn and  *)
(* then the turns of the sender in the order they were added: the history  *)
(* as it was with the text of the entry added as a user turn, less its     *)
(* oldest turns where that makes more than 2 * MAX_HISTORY.  The same      *)
(* turns are the history that is kept.  For a first "hello" the request is *)
(* the system turn and the user turn "hello".                              *)
(***************************************************************************)
C14_Request ==
    /\ [](cur.path = "chat" =>
             /\ Len(cur.request) <= 2 * MAX_HISTORY + 1
             /\ Head(cur.request) = Turn("system", SYSTEM_PROMPT)
             /\ cur.request[Len(cur.request)] = Turn("user", cur.text)
             /\ Len(dispatch_log) = 1 /\ cur.text = "hello" =>
                   cur.request = << Turn("system", SYSTEM_PROMPT), Turn("user", "hello") >>)
    /\ [][ pc = "for" /\ pc' = "backend" =>
             LET before == conversation_history[cur'.sender]
                 turns == LastTurns(Append(before, Turn("user", cur'.text)),
                                    2 * MAX_HISTORY)
             IN  /\ cur'.request = << Turn("system", SYSTEM_PROMPT) >> \o turns
                 /\ conversation_history'[cur'.sender] = turns ]_vars

\* the request of the eleventh exchange: the user turn of the first exchange
\* is no longer in it
C14_Witness ==
    /\ pc = "backend"
    /\ Len(dispatch_log) = MAX_HISTORY + 1
    /\ Len(cur.request) = 2 * MAX_HISTORY + 1
    /\ cur.request[2] = Turn("assistant", AI_REPLY)

\* the entries of the batch that the for loop has taken
Taken ==
    {new_messages[i].rowid :
        i \in {j \in 1..Len(new_messages) :
                  j < idx \/ (j = idx /\ pc \in {"backend", "send"})}}

(***************************************************************************)
(* C15.  Every entry the for loop has taken from the batch is in           *)
(* processed_messages, also the one whose reply is awaited and the ones    *)
(* skipped as our own message or as not allowed; and an id that is         *)
(* inspected was not in processed_messages before, so no id is inspected   *)
(* twice.                                                                  *)
(***************************************************************************)
C15_MarkedFirst ==
    /\ [](/\ pc \in {"for", "backend", "send"} => Taken \subseteq processed_messages
          /\ Inspected => cur.rowid \in processed_messages)
    /\ [][ cycle_ids' # cycle_ids /\ cycle_ids' # <<>> =>
             LET rowid == cycle_ids'[Len(cycle_ids')]
             IN  /\ rowid \notin processed_messages
                 /\ rowid \in processed_messages' ]_vars

\* an entry was skipped as our own message, and a batch was read after that
C15_Witness ==
    /\ cur.path = "echo"
    /\ cur.rowid \in processed_messages
    /\ pc = "for"
    /\ wm_at_poll >= cur.rowid

(***************************************************************************)
(* C16.  When KeyboardInterrupt has ended the loop, no entry is left that  *)
(* went on to the commands or the backend and for which osascript was not  *)
(* run to its end: the loop is ended between two cycles or two entries,    *)
(* never while the request to the backend or osascript is awaited.         *)
(***************************************************************************)
C16_InterruptBetween ==
    pc = "done" /\ Handled => cur.send # "none"

\* history: the last call of send_imessage
LastSend == sent_log[Len(sent_log)]

\* the entry the for loop takes next, when it is no repeat of an id
NextEntries ==
    IF pc = "for" /\ idx <= Len(new_messages) /\ ~AlreadyProcessed(new_messages[idx].rowid)
    THEN {new_messages[idx]}
    ELSE {}

(***************************************************************************)
(* C17.  While osascript is awaited the hash of the text is in             *)
(* sent_messages already, with the time of the call.  When osascript is    *)
(* over, whether it returned, timed out or raised, and less than           *)
(* SENT_MESSAGE_EXPIRY has passed since the call, is_our_sent_message is   *)
(* true of the text, and an entry with that text, trimmed and in lower     *)
(* case, that is taken next is skipped as our own message.                 *)
(***************************************************************************)
C17_TrackedBeforeSend ==
    /\ pc = "send" =>
          /\ LastSend.text = reply
          /\ msg_hash(reply) \in sent_messages
          /\ \E i \in 1..Len(sent_messages_with_time) :
                sent_messages_with_time[i] = << LastSend.at, msg_hash(reply) >>
    /\ cur.send # "none" /\ now - LastSend.at < SENT_MESSAGE_EXPIRY =>
          /\ LastSend.text = reply
          /\ is_our_sent_message(reply)
          /\ \A m \in NextEntries :
                TrimmedForms[m.text] = TrimmedForms[reply] => EntryPath(m) = "echo"

\* osascript timed out for the confirmation of /clear, and the confirmation
\* is the next entry, a second before SENT_MESSAGE_EXPIRY is over
C17_Witness ==
    /\ cur.send = "timeout"
    /\ reply = CLEAR_REPLY
    /\ LastSend.at = 0
    /\ now = SENT_MESSAGE_EXPIRY - 1
    /\ \E m \in NextEntries : m.text = ECHO_OF_CLEAR_REPLY

\* the failures that get_ai_response answers with an apology
HandledFailures == {"status", "connection", "timeout", "malformed"}

\* history: the texts send_imessage was called with for sender s
TextsSentTo(s) == {sent_log[i].text : i \in {j \in 1..Len(sent_log) : sent_log[j].to = s}}

(***************************************************************************)
(* C18.  After a failed request the history of the sender ends with the    *)
(* text of the entry as a user turn; no history holds an apology; and      *)
(* every assistant turn of a history holds a text that send_imessage was   *)
(* called with for that sender.                                            *)
(***************************************************************************)
C18_OnlySentRepliesStored ==
    /\ cur.outcome \in HandledFailures =>
          LET history == conversation_history[cur.sender]
          IN  history # <<>> /\ history[Len(history)] = Turn("user", cur.text)
    /\ \A s \in SenderUniverse :
          \A i \in 1..Len(conversation_history[s]) :
              LET turn == conversation_history[s][i]
              IN  /\ turn.content \notin Apologies
                  /\ turn.role = "assistant" => turn.content \in TextsSentTo(s)

\* no entry of ALLOWED_CONTACTS matches the sender, and there are entries
Refused(sender) ==
    /\ ALLOWED_CONTACTS # <<>>
    /\ \A i \in 1..Len(ALLOWED_CONTACTS) : ~ContactMatches(sender, ALLOWED_CONTACTS[i])

\* the step takes an entry of the batch and goes on to the next at once
SkipStep == pc = "for" /\ pc' = "for" /\ idx' = idx + 1

(***************************************************************************)
(* C19.  A step changes the history of no sender but the sender of the     *)
(* entry it handles.  An entry that is a repeat of an id, our own message  *)
(* or from a sender that is not allowed is passed over in one step, which  *)
(* changes no history, calls send_imessage for nothing and makes no        *)
(* request to the backend; the entries that are not passed over are the    *)
(* others.                                                                 *)
(***************************************************************************)
C19_Isolation ==
    [][ /\ \A s \in SenderUniverse :
             conversation_history'[s] # conversation_history[s] =>
                 /\ s = cur'.sender
                 /\ cur'.path \in {"clear", "chat"}
        /\ pc = "for" /\ idx <= Len(new_messages) =>
             LET m == new_messages[idx]
                 skipped == \/ m.rowid \in processed_messages
                            \/ is_our_sent_message(m.text)
                            \/ Refused(m.sender)
             IN  /\ skipped <=> SkipStep
                 /\ skipped => /\ UNCHANGED << conversation_history, sent_log, dispatch_log >>
                                /\ cur'.request = <<>> ]_vars

\* an entry from a sender that is not allowed was passed over while an
\* allowed sender had a history
C19_Witness ==
    /\ cur.path = "filtered"
    /\ cur.sender = "amy@x.com"
    /\ conversation_history["amy@x.com"] = <<>>
    /\ Len(conversation_history["+1555"]) = 2

(***************************************************************************)
(* The loop under a burst of more messages than one batch holds, with      *)
(* every call returning and no KeyboardInterrupt.                          *)
(***************************************************************************)
\* one message more than a batch holds
Burst == BATCH_LIMIT + 1

\* the burst: messages of a sender that is not allowed
ArriveBurst ==
    /\ pc \in {"start", "poll"}
    /\ store = <<>>
    /\ store' = [i \in 1..Burst |-> Message("say /help", 0, "amy@x.com", << "chat8" >>)]
    /\ UNCHANGED << ALLOWED_CONTACTS, hashseed, now, pc, last_rowid, new_messages, idx,
                    msg, reply, processed_messages, sent_messages,
                    sent_messages_with_time, conversation_history, old_count, wm_at_poll,
                    cycle_ids, dispatch_log, sent_log, cur, contact_in, contact_out >>

LiveArrivals ==
    { Message("hello", 0, "+1555", << "+1555" >>),
      Message("hello", 1, "+1555", << "+1555" >>) }

\* messages after the burst
ArriveAfter == Len(store) >= Burst /\ Arrive(LiveArrivals, Burst + MaxLiveAfter)

\* a read of the batch that does not fail
PollOk == Poll /\ new_messages' = get_recent_messages(last_rowid, TRUE)

InitLive ==
    /\ InitProgram
    /\ contact_in = None
    /\ contact_out = "none"
    /\ ALLOWED_CONTACTS = << "+1555" >>
    /\ hashseed = "distinct"
    /\ store = <<>>
    /\ old_count = 0

NextLive ==
    \/ Startup
    \/ Poll
    \/ HandleEntry
    \/ BackendReturn({"ok", "nonstring"})
    \/ SendReturn
    \/ Sleep
    \/ ArriveBurst
    \/ ArriveAfter

\* main() is one thread that goes from statement to statement: every step
\* that can be taken is taken and the requests and osascript return (weak
\* fairness), and a read that is tried again and again succeeds in the end
\* (strong fairness).  For the steps that work on texts the fairness is
\* written out with the guard of the step, which is when the step can be
\* taken: each of them changes pc or idx.
SpecLive ==
    /\ InitLive
    /\ [][NextLive]_vars
    /\ WF_vars(Startup)
    /\ WF_vars(SendReturn)
    /\ WF_vars(Sleep)
    /\ \/ <>[](pc # "poll")
       \/ []<><<PollOk>>_vars
    /\ \/ []<>(~(pc = "for" /\ idx <= Len(new_messages)))
       \/ []<><<HandleEntry>>_vars
    /\ \/ []<>(pc # "backend")
       \/ []<><<BackendReturn({"ok", "nonstring"})>>_vars

\* message rowid is in the store, above last_rowid, and the query selects it
Pending(rowid) ==
    /\ pc # "start"
    /\ rowid <= Len(store)
    /\ rowid > last_rowid
    /\ IsInboundText(rowid)

(***************************************************************************)
(* C20.  An inbound message with a text that is in the store above         *)
(* last_rowid once the loop has started is in processed_messages in the    *)
(* end, also when there are more such messages than a batch holds: so it   *)
(* is for the first message of the burst, for the one that the first batch *)
(* has no room for, and for the last message of all.                       *)
(***************************************************************************)
C20_AllInspected ==
    \A rowid \in {1, Burst, Burst + MaxLiveAfter} :
        Pending(rowid) ~> rowid \in processed_messages


====
